---------------------------- MODULE Spec2Model ----------------------------
(***************************************************************************)
(* The asset generators of the barbershop web application:                 *)
(*   public/scripts/icon-generator/script.py   ("icon-generator")          *)
(*   public/icon-generate/script.py            ("icon-generate")           *)
(*   public/splash/generate-splash.py          ("splash")                  *)
(* A state is the project's file tree, the script that is running and its  *)
(* position in its catalog, and what it has printed.  One step of a run is *)
(* one call of save_icon, save_ico, copy_file, or one iteration of the     *)
(* splash loop.                                                            *)
(***************************************************************************)
EXTENDS Integers, Sequences, FiniteSets, TLC

(***************************************************************************)
(* Bounds of the model.                                                    *)
(***************************************************************************)
\* Runs of the scripts in one behaviour.
MaxRuns == 3
\* In the reordered runs (SpecPerm): a step is picked among this many of
\* the lowest remaining catalog positions.
PermWindow == 2

(***************************************************************************)
(* Directories and paths (script.py 21-28, generate-splash.py 65-66).      *)
(* The project root, public and the scripts' own directories hold the      *)
(* scripts and always exist; the others may be missing.                    *)
(***************************************************************************)
INPUT == "NewIcon.png"
PUBLIC_DIR == "public"
ICONS_DIR == PUBLIC_DIR \o "/icons"
APP_DIR == "app"
ASSETS_DIR == PUBLIC_DIR \o "/assets"
BRANDING_DIR == ASSETS_DIR \o "/branding"
SPLASH_DIR == PUBLIC_DIR \o "/splash"

IconScripts == {"icon-generator", "icon-generate"}
Scripts == IconScripts \cup {"splash"}

SCRIPT_DIR(s) ==
    IF s = "icon-generator" THEN PUBLIC_DIR \o "/scripts/icon-generator"
    ELSE IF s = "icon-generate" THEN PUBLIC_DIR \o "/icon-generate"
    ELSE SPLASH_DIR

OptionalDirs == {ICONS_DIR, APP_DIR, ASSETS_DIR, BRANDING_DIR}

\* Path.mkdir(parents=True, exist_ok=True): the directory and its missing
\* ancestors.
MkdirParents(dir) ==
    IF dir = BRANDING_DIR THEN {ASSETS_DIR, BRANDING_DIR}
    ELSE IF dir \in OptionalDirs THEN {dir}
    ELSE {}

DirExists(dir, d) == dir \notin OptionalDirs \/ dir \in d

(***************************************************************************)
(* File contents.  fresh is TRUE for content produced by the run in        *)
(* progress (a copy carries the flag of what it copies).  art describes    *)
(* what a splash screen has at its centre.                                 *)
(***************************************************************************)
NoArt == [mode |-> "none", size |-> 0, x |-> 0, y |-> 0, x1 |-> 0, y1 |-> 0,
          logoW |-> 0]

File(kind, w, h, frames, fresh, art) ==
    [kind |-> kind, w |-> w, h |-> h, frames |-> frames, fresh |-> fresh,
     art |-> art]

NoFile == File("none", 0, 0, {}, FALSE, NoArt)
\* A readable image left by something earlier, of no catalog size.
Stale == File("png", 1, 1, {}, FALSE, NoArt)
\* Bytes that are no image: arbitrary content, or a half-written file.
Junk == File("junk", 0, 0, {}, FALSE, NoArt)

Exists(f, p) == f[p].kind # "none"

(***************************************************************************)
(* Pillow, as the scripts use it.                                          *)
(***************************************************************************)
\* Image.resize((w, h), LANCZOS): exactly the requested size, whatever the
\* source's.
Resize(img, w, h) == [w |-> w, h |-> h]

\* image.save(path, format="PNG")
PngFile(im) == File("png", im.w, im.h, {}, TRUE, NoArt)

Max(S) == CHOOSE m \in S : \A k \in S : k <= m
Min(S) == CHOOSE m \in S : \A k \in S : m <= k

\* icons[0].save(path, format="ICO", append_images=icons[1:], sizes=...):
\* Pillow writes one frame per requested size, skipping every size larger
\* than the image save() is called on (icons[0]) or larger than 256.
IcoFrames(icons, sizes) ==
    { sizes[i] : i \in { j \in DOMAIN sizes :
                           /\ sizes[j] <= icons[1].w
                           /\ sizes[j] <= icons[1].h
                           /\ sizes[j] <= 256 } }

IcoFile(icons, sizes) ==
    LET fr == IcoFrames(icons, sizes)
    IN  File("ico", Max(fr), Max(fr), fr, TRUE, NoArt)


(***************************************************************************)
(* int(min(width, height) * 0.35): an IEEE-754 double product, rounded to  *)
(* nearest-even, then truncated.  0.35 is the double Double035 * 2^-54,    *)
(* its 53-bit significand held in three 18-bit limbs, lowest first.        *)
(***************************************************************************)
LimbBase == 2^18
Double035 == <<157286, 104857, 91750>>

RECURSIVE BitLen(_)
BitLen(i) == IF i = 0 THEN 0 ELSE 1 + BitLen(i \div 2)

\* round() in place of int().
IntOfScaled_Round(n) == (35 * n + 50) \div 100

\* int(n * 0.35) for an integer n of at most 12 bits.
IntOfScaled(n) ==
    LET t0 == n * Double035[1]
        p0 == t0 % LimbBase
        t1 == n * Double035[2] + (t0 \div LimbBase)
        p1 == t1 % LimbBase
        t2 == n * Double035[3] + (t1 \div LimbBase)
        p2 == t2 % LimbBase
        \* the exact product is p0 + p1*2^18 + p2*2^36 + whole*2^54
        whole == t2 \div LimbBase
        \* bits dropped when the product is rounded to 53 bits
        shift == BitLen(whole) + 1
        rem == p0 % (2^shift)
        half == 2^(shift - 1)
        keptLow == p0 \div (2^shift)
        up == rem > half \/ (rem = half /\ keptLow % 2 = 1)
        \* rounding up carries into the integer part only through all-ones
        ones == /\ p2 = LimbBase - 1
                /\ p1 = LimbBase - 1
                /\ keptLow = 2^(18 - shift) - 1
    IN  IF whole = 0 THEN 0
        ELSE IF up /\ ones THEN whole + 1 ELSE whole

(***************************************************************************)
(* The catalogs: main() of each script, as the sequence of its calls.      *)
(***************************************************************************)
Call(op, size, sizes, src, dir, name, w, h) ==
    [op |-> op, size |-> size, sizes |-> sizes, src |-> src, dir |-> dir,
     dst |-> dir \o "/" \o name, w |-> w, h |-> h]

SaveIconStep(size, dir, name) ==
    Call("save_icon", size, <<>>, "", dir, name, size, size)
SaveIcoStep(dir, name, sizes) ==
    Call("save_ico", 0, sizes, "", dir, name, 0, 0)
CopyStep(src, dir, name) ==
    Call("copy_file", 0, <<>>, src, dir, name, 0, 0)

SquareName(prefix, n) ==
    prefix \o ToString(n) \o "x" \o ToString(n) \o ".png"

pwa_sizes == <<72, 96, 128, 144, 152, 192, 384, 512>>
favicon_sizes == <<16, 32, 48>>

apple_icons(s) ==
    <<  <<180, "apple-touch-icon.png">>,
        <<152, "apple-touch-icon-152x152.png">>,
        <<167, "apple-touch-icon-167x167.png">>,
        <<180, "apple-touch-icon-180x180.png">> >>
    \o (IF s = "icon-generator"
        THEN << <<120, "apple-touch-icon-120x120.png">>,
                <<76, "apple-touch-icon-76x76.png">> >>
        ELSE << >>)

\* The calls both icon generators make first, in order.
CommonSteps(s) ==
    [i \in 1..Len(pwa_sizes) |->
        SaveIconStep(pwa_sizes[i], ICONS_DIR, SquareName("icon-", pwa_sizes[i]))]
    \o [i \in 1..Len(apple_icons(s)) |->
        SaveIconStep(apple_icons(s)[i][1], ICONS_DIR, apple_icons(s)[i][2])]
    \o << CopyStep(ICONS_DIR \o "/apple-touch-icon.png", PUBLIC_DIR,
                   "apple-touch-icon.png") >>
    \o [i \in 1..Len(favicon_sizes) |->
        SaveIconStep(favicon_sizes[i], PUBLIC_DIR,
                     SquareName("favicon-", favicon_sizes[i]))]
    \o << SaveIcoStep(PUBLIC_DIR, "favicon.ico", <<16, 32, 48>>),
          CopyStep(PUBLIC_DIR \o "/favicon.ico", APP_DIR, "favicon.ico") >>

\* public/scripts/icon-generator/script.py
CatalogGenerator ==
    CommonSteps("icon-generator")
    \o << SaveIconStep(512, PUBLIC_DIR, "logo.png"),
          SaveIconStep(512, PUBLIC_DIR, "icon.png"),
          SaveIconStep(1024, BRANDING_DIR, "logo-1024.png"),
          SaveIconStep(512, BRANDING_DIR, "logo-512.png"),
          SaveIconStep(256, BRANDING_DIR, "logo-256.png"),
          SaveIconStep(96, ICONS_DIR, "shortcut-book.png"),
          SaveIconStep(96, ICONS_DIR, "shortcut-appointments.png") >>

\* public/icon-generate/script.py
shortcut_icons == <<"shortcut-task.png", "shortcut-budget.png",
                    "shortcut-calendar.png">>

CatalogGenerate ==
    CommonSteps("icon-generate")
    \o [i \in 1..Len(shortcut_icons) |->
        SaveIconStep(96, ICONS_DIR, shortcut_icons[i])]
    \o << SaveIconStep(512, PUBLIC_DIR, "logo.png") >>

\* public/splash/generate-splash.py
SIZES == << <<1290, 2796>>, <<1179, 2556>>, <<1284, 2778>>, <<1170, 2532>>,
            <<1125, 2436>>, <<1242, 2688>>, <<828, 1792>>, <<1242, 2208>>,
            <<750, 1334>>, <<2048, 2732>>, <<1668, 2388>>, <<1668, 2224>>,
            <<1640, 2360>>, <<1536, 2048>> >>

CatalogSplash ==
    [i \in 1..Len(SIZES) |->
        Call("splash", 0, <<>>, "", SPLASH_DIR,
             "splash-" \o ToString(SIZES[i][1]) \o "x"
                       \o ToString(SIZES[i][2]) \o ".png",
             SIZES[i][1], SIZES[i][2])]

MainCalls ==
    [s \in Scripts |->
        IF s = "icon-generator" THEN CatalogGenerator
        ELSE IF s = "icon-generate" THEN CatalogGenerate
        ELSE CatalogSplash]

\* main() with each copy_file call moved ahead of every save call.
CopyFirst ==
    [s \in Scripts |->
        LET c == MainCalls[s]
            n == Len(c)
            copies == { i \in 1..n : c[i].op = "copy_file" }
            rest == { i \in 1..n : c[i].op # "copy_file" }
            Nth(S, k) ==
                CHOOSE i \in S : Cardinality({ j \in S : j < i }) = k - 1
        IN  [k \in 1..n |->
                IF k <= Cardinality(copies) THEN c[Nth(copies, k)]
                ELSE c[Nth(rest, k - Cardinality(copies))]]]

Catalog_CopyFirst(s) == CopyFirst[s]

\* The calls of main(), in the order its statements run.
Catalog(s) == MainCalls[s]

Dests(s) == { Catalog(s)[i].dst : i \in DOMAIN Catalog(s) }

\* The logo the splash generator reads.
LogoPath == ICONS_DIR \o "/icon-512x512.png"

Paths == UNION { Dests(s) : s \in Scripts }

ParentDir ==
    [p \in Paths |->
        LET sc == CHOOSE s \in Scripts : p \in Dests(s)
            i == CHOOSE j \in DOMAIN Catalog(sc) : Catalog(sc)[j].dst = p
        IN  Catalog(sc)[i].dir]

ParentOf(p) == ParentDir[p]

(***************************************************************************)
(* The helpers.  Each returns what the call leaves: whether it returned or *)
(* raised, and the file tree after it.                                     *)
(***************************************************************************)
Outcome(ok, cause, f, d) == [ok |-> ok, cause |-> cause, fs |-> f, dirs |-> d]

Unlink(f, p) == [f EXCEPT ![p] = NoFile]
WriteFile(f, p, c) == [f EXCEPT ![p] = c]

\* save() placed under an else of the exists() test.
Replace_ElseBranch(f, p, c) ==
    IF Exists(f, p) THEN Unlink(f, p) ELSE WriteFile(f, p, c)

\* "if path.exists(): path.unlink()" and then the write.
Replace(f, p, c) ==
    WriteFile(IF Exists(f, p) THEN Unlink(f, p) ELSE f, p, c)

\* The helpers of icon-generator/script.py begin with
\* parent.mkdir(parents=True, exist_ok=True); those of
\* icon-generate/script.py do not.
MakesParents(s) == s = "icon-generator"

HelperDirs(s, st, d) ==
    IF MakesParents(s) THEN d \cup MkdirParents(st.dir) ELSE d

\* Resizing the generated 512 px icon on disk instead of the source held in
\* memory: the output is as new as the file it was made from.
save_icon_FromDerived(s, image, st, f, d) ==
    LET d1 == HelperDirs(s, st, d)
        resized == Resize(image, st.size, st.size)
    IN  IF ~DirExists(st.dir, d1)
        THEN Outcome(FALSE, "missing_dir", f, d1)
        ELSE IF ~Exists(f, LogoPath) /\ st.dst # LogoPath
        THEN Outcome(FALSE, "missing_src", f, d1)
        ELSE Outcome(TRUE, "none",
                     Replace(f, st.dst,
                             [PngFile(resized) EXCEPT
                                !.fresh = (st.dst = LogoPath
                                           \/ f[LogoPath].fresh)]),
                     d1)

save_icon(s, image, st, f, d) ==
    LET d1 == HelperDirs(s, st, d)
        resized == Resize(image, st.size, st.size)
    IN  IF ~DirExists(st.dir, d1)
        THEN Outcome(FALSE, "missing_dir", f, d1)
        ELSE Outcome(TRUE, "none", Replace(f, st.dst, PngFile(resized)), d1)

save_ico(s, image, st, f, d) ==
    LET d1 == HelperDirs(s, st, d)
        icons == [i \in DOMAIN st.sizes |->
                    Resize(image, st.sizes[i], st.sizes[i])]
    IN  IF ~DirExists(st.dir, d1)
        THEN Outcome(FALSE, "missing_dir", f, d1)
        ELSE Outcome(TRUE, "none",
                     Replace(f, st.dst, IcoFile(icons, st.sizes)), d1)

\* shutil.copy raises FileNotFoundError for a missing source and for a
\* missing destination directory, after dst was unlinked.
copy_file(s, st, f, d) ==
    LET d1 == HelperDirs(s, st, d)
        f1 == IF Exists(f, st.dst) THEN Unlink(f, st.dst) ELSE f
    IN  IF ~Exists(f1, st.src)
        THEN Outcome(FALSE, "missing_src", f1, d1)
        ELSE IF ~DirExists(st.dir, d1)
        THEN Outcome(FALSE, "missing_dir", f1, d1)
        ELSE Outcome(TRUE, "none", WriteFile(f1, st.dst, f1[st.src]), d1)

\* A logo looked for beside the script instead of in ../icons.
SplashLogoPath_Local == SPLASH_DIR \o "/splash-1290x2796.png"

\* The logo file main() of generate-splash.py passes on.
SplashLogoPath == LogoPath

Centered(mode, width, height, logo_size, logoW) ==
    LET x == (width - logo_size) \div 2
        y == (height - logo_size) \div 2
    IN  [mode |-> mode, size |-> logo_size, x |-> x, y |-> y,
         x1 |-> x + logo_size, y1 |-> y + logo_size, logoW |-> logoW]

\* The except clause re-raising instead of drawing the placeholder.
LogoMissing_Raise(width, height) ==
    [ok |-> FALSE, cause |-> "missing_logo", art |-> NoArt]

\* except FileNotFoundError: the gold circle in the logo's box.
LogoMissing(width, height) ==
    [ok |-> TRUE, cause |-> "none",
     art |-> Centered("placeholder", width, height,
                      IntOfScaled(Min({width, height})), 0)]

\* Only FileNotFoundError is caught: a logo file that is no image raises
\* out of create_splash_screen.
create_splash_screen(width, height, f) ==
    LET logo == f[SplashLogoPath]
        r == IF logo.kind = "none" THEN LogoMissing(width, height)
             ELSE IF logo.kind = "junk"
             THEN [ok |-> FALSE, cause |-> "bad_logo", art |-> NoArt]
             ELSE [ok |-> TRUE, cause |-> "none",
                   art |-> Centered("logo", width, height,
                                    IntOfScaled(Min({width, height})),
                                    logo.w)]
    IN  [ok |-> r.ok, cause |-> r.cause,
         image |-> File("png", width, height, {}, TRUE, r.art)]

\* One iteration of the splash loop: compose, then save over the file.
splash_step(st, f, d) ==
    LET sp == create_splash_screen(st.w, st.h, f)
    IN  IF ~sp.ok THEN Outcome(FALSE, sp.cause, f, d)
        ELSE Outcome(TRUE, "none", WriteFile(f, st.dst, sp.image), d)

RunStep(s, image, st, f, d) ==
    IF st.op = "save_icon" THEN save_icon(s, image, st, f, d)
    ELSE IF st.op = "save_ico" THEN save_ico(s, image, st, f, d)
    ELSE IF st.op = "copy_file" THEN copy_file(s, st, f, d)
    ELSE splash_step(st, f, d)

(***************************************************************************)
(* State.                                                                  *)
(***************************************************************************)
VARIABLES
    fsAtStart,     \* history: the files when the run started
    fs,            \* Paths -> content of the file there
    source,        \* per icon script: the NewIcon.png beside it
    dirsAtStart,   \* history: the directories when the run started
    dirs,          \* the optional directories that exist
    img,           \* the source image main() holds in memory
    console,       \* what the run has printed
    run,           \* runs started so far
    script,        \* the script of the current (or last) run
    todo,          \* catalog positions the run has not executed yet
    pc,            \* "idle", "running", "done", "returned", "aborted"
    failedAt,      \* history: catalog position of the call that raised
    abortCause,    \* history: why the run aborted
    repeatOf,      \* history: the run repeats the script that just
                   \*   completed, nothing having touched the tree between
    iconEver,      \* history: an icon generator has run on this tree
    iconCompleted, \* history: an icon generator run has completed and
                   \*   the logo it wrote has not been deleted since
    logoReady,     \* history: iconCompleted when the run started
    outOfOrder,    \* history: the run executed a copy_file before the
                   \*   call that writes its source
    reordered      \* history: the run executed a call ahead of an
                   \*   earlier call of the catalog

vars == <<fsAtStart, fs, source, dirsAtStart, dirs, img, console, run,
          script, todo, pc, failedAt, abortCause, repeatOf, iconEver,
          iconCompleted, logoReady, outOfOrder, reordered>>

NoImage == [w |-> 0, h |-> 0]
Absent == [exists |-> FALSE, w |-> 0, h |-> 0]
Present(w, h) == [exists |-> TRUE, w |-> w, h |-> h]

\* The source images tried: missing, the recommended size, and one below
\* the 512 px of the warning (and not square).
SourceChoices == {Absent, Present(1024, 1024), Present(300, 600)}

\* The directories a tree starts with.
DirChoices == { {}, {ICONS_DIR}, {ICONS_DIR, APP_DIR}, OptionalDirs }

\* What the files of a starting tree hold: nothing, an older image, or
\* arbitrary bytes.
TreeContents == {NoFile, Stale, Junk}

Unfresh(f) == [p \in Paths |-> [f[p] EXCEPT !.fresh = FALSE]]

Init ==
    /\ source \in [IconScripts -> SourceChoices]
    /\ dirs \in DirChoices
    /\ \E k \in TreeContents :
          /\ fs = [p \in Paths |->
                     IF DirExists(ParentOf(p), dirs) THEN k ELSE NoFile]
          /\ iconEver = (k # NoFile /\ ICONS_DIR \in dirs)
    /\ script = "none"
    /\ pc = "idle"
    /\ todo = {}
    /\ run = 0
    /\ img = NoImage
    /\ console = {}
    /\ fsAtStart = fs
    /\ dirsAtStart = dirs
    /\ failedAt = 0
    /\ abortCause = "none"
    /\ repeatOf = FALSE
    /\ iconCompleted = FALSE
    /\ logoReady = FALSE
    /\ outOfOrder = FALSE
    /\ reordered = FALSE

(***************************************************************************)
(* main(): from its first line to the first catalog call.                  *)
(***************************************************************************)
\* A script can be started whenever none is running.  An I/O fault ends
\* the behaviour: nothing is run on the faulty tree.
CanStart == pc # "running" /\ run < MaxRuns /\ abortCause # "io"

BeginRun(s) ==
    /\ script' = s
    /\ run' = run + 1
    /\ fsAtStart' = Unfresh(fs)
    /\ dirsAtStart' = dirs
    /\ failedAt' = 0
    /\ abortCause' = "none"
    /\ repeatOf' = (script = s /\ pc = "done")
    /\ iconEver' = (iconEver \/ s \in IconScripts)
    /\ logoReady' = iconCompleted
    /\ outOfOrder' = FALSE
    /\ reordered' = FALSE
    /\ UNCHANGED <<source, iconCompleted>>

\* "Ensure output directories exist", run whether or not the source is
\* there.
EnsureDirs_BeforeCheck(s, present, d) ==
    d \cup MkdirParents(ICONS_DIR)
      \cup (IF s = "icon-generator" THEN MkdirParents(BRANDING_DIR) ELSE {})

\* ICONS_DIR.mkdir (and BRANDING_DIR.mkdir in icon-generator), reached only
\* past the early return.
EnsureDirs(s, present, d) ==
    IF present
    THEN d \cup MkdirParents(ICONS_DIR)
           \cup (IF s = "icon-generator" THEN MkdirParents(BRANDING_DIR)
                 ELSE {})
    ELSE d

StartIcon(s) ==
    /\ CanStart
    /\ BeginRun(s)
    /\ fs' = Unfresh(fs)
    /\ dirs' = EnsureDirs(s, source[s].exists, dirs)
    /\ IF ~source[s].exists
       THEN /\ pc' = "returned"
            /\ console' = {"error: source not found"}
            /\ img' = NoImage
            /\ todo' = {}
       ELSE /\ pc' = "running"
            /\ img' = [w |-> source[s].w, h |-> source[s].h]
            /\ console' = {"loading"} \cup
                          (IF source[s].w < 512 \/ source[s].h < 512
                           THEN {"warning: smaller than 512x512"} ELSE {})
            /\ todo' = DOMAIN Catalog(s)

StartSplash ==
    /\ CanStart
    /\ BeginRun("splash")
    /\ fs' = Unfresh(fs)
    /\ pc' = "running"
    /\ img' = NoImage
    /\ console' = {"generating"}
    /\ todo' = DOMAIN Catalog("splash")
    /\ UNCHANGED dirs

(***************************************************************************)
(* The catalog calls.                                                      *)
(***************************************************************************)
\* What happens to an exception raised inside main(): nothing catches it.
OnError_Swallow == "running"

OnError == "aborted"

\* Call i of the catalog, run on the current tree.
StepAt(i) ==
    LET st == Catalog(script)[i]
        r == RunStep(script, img, st, fs, dirs)
    IN  /\ fs' = r.fs
        /\ dirs' = r.dirs
        /\ outOfOrder' =
              (outOfOrder \/ (st.op = "copy_file" /\
                  \E j \in todo : Catalog(script)[j].dst = st.src))
        /\ reordered' = (reordered \/ i # Min(todo))
        /\ IF r.ok
           THEN /\ todo' = todo \ {i}
                /\ console' = console \cup {"progress"}
                /\ UNCHANGED <<pc, failedAt, abortCause>>
           ELSE /\ pc' = OnError
                /\ failedAt' = i
                /\ abortCause' = r.cause
                /\ console' = console \cup
                      (IF r.cause = "missing_logo"
                       THEN {"warning: logo not found"} ELSE {})
                /\ UNCHANGED todo
        /\ UNCHANGED <<source, script, run, img, fsAtStart, dirsAtStart,
                       repeatOf, iconEver, iconCompleted, logoReady>>

\* main() runs its calls top to bottom.
Step ==
    /\ pc = "running"
    /\ todo # {}
    /\ StepAt(Min(todo))

\* The write of call i fails for a reason outside the scripts (permission,
\* full disk): before anything changed, after the old file was removed, or
\* leaving a half-written file.
IoFault(how) ==
    /\ pc = "running"
    /\ todo # {}
    /\ LET i == Min(todo)
           st == Catalog(script)[i]
           d1 == IF st.op = "splash" THEN dirs ELSE HelperDirs(script, st, dirs)
       IN  /\ how # "unchanged" => DirExists(st.dir, d1)
           /\ how = "removed" => st.op # "splash"
           /\ fs' = IF how = "unchanged" THEN fs
                    ELSE IF how = "removed" THEN Unlink(fs, st.dst)
                    ELSE WriteFile(fs, st.dst, Junk)
           /\ dirs' = IF how = "unchanged" THEN dirs ELSE d1
           /\ failedAt' = i
    /\ pc' = OnError
    /\ abortCause' = "io"
    /\ UNCHANGED <<source, script, todo, run, img, console, fsAtStart,
                   dirsAtStart, repeatOf, iconEver, iconCompleted,
                   logoReady, outOfOrder, reordered>>

\* The summary, printed after the last call.
Finish ==
    /\ pc = "running"
    /\ todo = {}
    /\ pc' = "done"
    /\ console' = console \cup {"summary"}
    /\ iconCompleted' = (iconCompleted \/ script \in IconScripts)
    /\ UNCHANGED <<source, fs, dirs, script, todo, run, img, fsAtStart,
                   dirsAtStart, failedAt, abortCause, repeatOf, iconEver,
                   logoReady, outOfOrder, reordered>>

\* Between runs somebody deletes the generated 512 px icon.
EnvDeleteLogo ==
    /\ CanStart
    /\ Exists(fs, LogoPath)
    /\ fs' = Unlink(fs, LogoPath)
    /\ iconCompleted' = FALSE
    /\ pc' = "idle"
    /\ UNCHANGED <<source, dirs, script, todo, run, img, console, fsAtStart,
                   dirsAtStart, failedAt, abortCause, repeatOf, iconEver,
                   logoReady, outOfOrder, reordered>>

Next ==
    \/ \E s \in IconScripts : StartIcon(s)
    \/ StartSplash
    \/ Step
    \/ \E how \in {"unchanged", "removed", "partial"} : IoFault(how)
    \/ Finish
    \/ EnvDeleteLogo

Spec == Init /\ [][Next]_vars

(***************************************************************************)
(* The icon generators with their calls run in another order: any of the   *)
(* PermWindow lowest remaining calls may run next.                         *)
(***************************************************************************)
Window(S) == { i \in S : Cardinality({ j \in S : j < i }) < PermWindow }

PermStep ==
    /\ pc = "running"
    /\ \E i \in Window(todo) : StepAt(i)

\* One reordered run, on a starting tree.
StartPerm(s) == run = 0 /\ StartIcon(s)

NextPerm ==
    \/ \E s \in IconScripts : StartPerm(s)
    \/ PermStep
    \/ Finish

SpecPerm == Init /\ [][NextPerm]_vars

TypeOK ==
    /\ pc \in {"idle", "running", "done", "returned", "aborted"}
    /\ script \in Scripts \cup {"none"}
    /\ dirs \subseteq OptionalDirs
    /\ run \in 0..MaxRuns
    /\ \A p \in Paths : Exists(fs, p) => DirExists(ParentOf(p), dirs)

(***************************************************************************)
(* Properties.                                                             *)
(***************************************************************************)
InRun == pc \in {"running", "done", "aborted"}

\* The calls of the current run that have returned.
Executed == IF InRun THEN DOMAIN Catalog(script) \ todo ELSE {}

Range(seq) == { seq[i] : i \in DOMAIN seq }

\* What can be told of a file from outside: its format and pixel sizes.
Dim(c) == <<c.kind, c.w, c.h, c.frames>>

AsDeclared(st, c, f) ==
    IF st.op = "save_icon"
    THEN c.kind = "png" /\ c.w = st.size /\ c.h = st.size /\ c.fresh
    ELSE IF st.op = "save_ico"
    THEN c.kind = "ico" /\ c.frames = Range(st.sizes) /\ c.fresh
    ELSE IF st.op = "copy_file"
    THEN c.kind # "none" /\ c.fresh /\ c = f[st.src]
    ELSE c.kind = "png" /\ c.w = st.w /\ c.h = st.h /\ c.fresh

\* C1: once main() of any of the three scripts completes, every destination
\* of its catalog exists and holds what the catalog declares for it (the
\* declared width and height; for the ICO container its declared sizes),
\* produced by this run, whatever was there before; the PWA sizes yield the
\* 8 files icon-NxN.png, each N x N.
C1_EveryDestinationAsDeclared ==
    pc = "done" =>
        /\ \A i \in DOMAIN Catalog(script) :
              AsDeclared(Catalog(script)[i], fs[Catalog(script)[i].dst], fs)
        /\ script \in IconScripts =>
              \A n \in {72, 96, 128, 144, 152, 192, 384, 512} :
                  LET c == fs[ICONS_DIR \o "/" \o SquareName("icon-", n)]
                  IN  c.kind = "png" /\ c.w = n /\ c.h = n /\ c.fresh

\* C1, the part the code keeps: the same for every destination that is not
\* the ICO container or its copy.
C1_PngDestinationsAsDeclared ==
    pc = "done" =>
        /\ \A i \in DOMAIN Catalog(script) :
              fs[Catalog(script)[i].dst].kind # "ico" =>
                  AsDeclared(Catalog(script)[i], fs[Catalog(script)[i].dst], fs)
        /\ script \in IconScripts =>
              /\ fs[PUBLIC_DIR \o "/favicon.ico"].frames = {16}
              /\ \A n \in {72, 96, 128, 144, 152, 192, 384, 512} :
                  LET c == fs[ICONS_DIR \o "/" \o SquareName("icon-", n)]
                  IN  c.kind = "png" /\ c.w = n /\ c.h = n /\ c.fresh

\* C4: a run that repeats the script that has just completed, on the tree
\* it left and with the same source, succeeds although every destination
\* exists, and leaves the same set of files with the same dimensions.
C4_RepeatIsIdempotent ==
    repeatOf =>
        /\ pc = "aborted" => abortCause = "io"
        /\ pc = "done" =>
              /\ \A p \in Paths : Dim(fs[p]) = Dim(fsAtStart[p])
              /\ \A p \in Dests(script) : fs[p].fresh /\ Exists(fsAtStart, p)

\* C4 witness: icon-generator has completed a second run in a row.
C4_Witness ==
    repeatOf /\ pc = "done" /\ script = "icon-generator"

\* C5: in every icon generator the helpers create the missing parent
\* directories, so a run that starts with the source present and none of
\* the output directories existing does not fail for a missing directory,
\* and once complete has written every destination, app/favicon.ico too.
C5_BareTreeRunCompletes ==
    (script \in IconScripts /\ InRun /\ dirsAtStart = {}) =>
        /\ abortCause \in {"none", "io"}
        /\ pc = "done" =>
              \A p \in Dests(script) : Exists(fs, p) /\ fs[p].fresh

\* C6: when a call raises (the missing logo apart), the run aborts there:
\* the summary is not printed, the call is not run again, no destination
\* later in the catalog is written or deleted, and the destinations of the
\* earlier calls keep what this run wrote (as long as nobody else touches
\* the tree).
C6_FailureAborts ==
    (failedAt # 0 /\ pc # "idle") =>
        /\ pc = "aborted"
        /\ "summary" \notin console
        /\ todo = { j \in DOMAIN Catalog(script) : j >= failedAt }
        /\ \A j \in DOMAIN Catalog(script) :
              /\ j > failedAt =>
                    fs[Catalog(script)[j].dst] = fsAtStart[Catalog(script)[j].dst]
              /\ j < failedAt =>
                    /\ Exists(fs, Catalog(script)[j].dst)
                    /\ fs[Catalog(script)[j].dst].fresh

\* C6 witness: a write failed in the middle of a catalog, on a tree whose
\* later destinations held older files.
C6_Witness ==
    /\ pc = "aborted" /\ abortCause = "io"
    /\ failedAt > 2 /\ failedAt < Len(Catalog(script))
    /\ Exists(fs, Catalog(script)[Len(Catalog(script))].dst)

\* C9: the logo the splash generator reads is a destination of both icon
\* generators; a splash run started after an icon generator run completed,
\* the logo not deleted since, puts the 512 px icon in every screen it
\* writes and the placeholder in none; on a tree no icon generator ever
\* ran on, it puts the placeholder in all of them.
C9_SplashLogoFromIconRun ==
    /\ \A s \in IconScripts :
          \E i \in DOMAIN Catalog(s) :
              /\ Catalog(s)[i].dst = SplashLogoPath
              /\ Catalog(s)[i].op = "save_icon" /\ Catalog(s)[i].size = 512
    /\ (script = "splash" /\ InRun) =>
          /\ logoReady =>
                /\ pc = "aborted" => abortCause = "io"
                /\ \A i \in Executed :
                      LET a == fs[Catalog(script)[i].dst].art
                      IN  a.mode = "logo" /\ a.logoW = 512
          /\ ~iconEver =>
                \A i \in Executed :
                    fs[Catalog(script)[i].dst].art.mode = "placeholder"

\* C9 witness: a splash run has completed after an icon generator run.
C9_Witness ==
    /\ script = "splash" /\ pc = "done" /\ logoReady

\* C10: in a run of either icon generator a copy_file call has run only if
\* the call writing its source has, no later call rewrites that source, and
\* from then on the copy equals its source as this run generated it.
C10_CopyAfterSourceWritten ==
    (script \in IconScripts /\ InRun) =>
        /\ ~outOfOrder
        /\ \A i \in DOMAIN Catalog(script) :
              LET st == Catalog(script)[i]
                  writers == { j \in DOMAIN Catalog(script) :
                                 Catalog(script)[j].dst = st.src }
              IN  st.op = "copy_file" =>
                    /\ Cardinality(writers) = 1
                    /\ \A j \in writers : j < i
                    /\ i \in Executed =>
                          /\ writers \subseteq Executed
                          /\ fs[st.src].fresh
                          /\ fs[st.dst] = fs[st.src]

\* C10 witness: a completed icon run on a tree where the sources of the
\* copies did not exist before.
C10_Witness ==
    /\ script \in IconScripts /\ pc = "done"
    /\ ~Exists(fsAtStart, ICONS_DIR \o "/apple-touch-icon.png")
    /\ ~Exists(fsAtStart, PUBLIC_DIR \o "/favicon.ico")
    /\ Exists(fs, APP_DIR \o "/favicon.ico")

(***************************************************************************)
(* Reordered runs.                                                         *)
(***************************************************************************)
RECURSIVE RunAll(_, _, _, _, _)
RunAll(s, image, k, f, d) ==
    IF k > Len(Catalog(s)) THEN Outcome(TRUE, "none", f, d)
    ELSE LET r == RunStep(s, image, Catalog(s)[k], f, d)
         IN  IF r.ok THEN RunAll(s, image, k + 1, r.fs, r.dirs) ELSE r

\* What the run in progress would leave had its calls run in catalog order.
InCatalogOrder ==
    RunAll(script, img, 1, fsAtStart, EnsureDirs(script, TRUE, dirsAtStart))

\* C7 as stated: whatever the order of the calls, the run leaves what the
\* catalog order leaves.
C7_AnyOrderSameResult ==
    (script \in IconScripts /\ pc \in {"done", "aborted"}) =>
        /\ InCatalogOrder.ok => pc = "done"
        /\ pc = "done" => fs = InCatalogOrder.fs

\* C7 amended: an order that runs every copy_file after the call writing
\* its source leaves, when the run completes, the files and directories
\* the catalog order leaves, and completes whenever the catalog order does.
C7_DependencyOrderSameResult ==
    (script \in IconScripts /\ pc \in {"done", "aborted"} /\ ~outOfOrder) =>
        /\ InCatalogOrder.ok <=> pc = "done"
        /\ pc = "done" =>
              /\ fs = InCatalogOrder.fs
              /\ dirs = InCatalogOrder.dirs

\* C7 witness: a run has completed with some call run ahead of an earlier
\* one, every copy still after its source.
C7_Witness ==
    /\ pc = "done" /\ reordered /\ ~outOfOrder
    /\ script = "icon-generator"

=============================================================================
